---------------------------- MODULE Spec2Model ----------------------------
(***************************************************************************)
(* A model of postgres-large-object: the Handle (LargeObject), the Manager *)
(* (LargeObjectManager) and the two stream adapters (ReadStream,           *)
(* WriteStream), together with the remote engine they talk to.             *)
(*                                                                         *)
(* The remote engine is reached only through the SQL statements of the     *)
(* library; each lo_* operator below is the server function the statement  *)
(* on the mapped source line invokes.  A statement is one atomic request:  *)
(* it either answers with one row or fails and changes nothing.            *)
(***************************************************************************)
EXTENDS Integers, Sequences, FiniteSets, TLC

(***************************************************************************)
(* Bounds of the model.                                                    *)
(***************************************************************************)
\* longest object, and largest position, the engine is driven to
MaxLen == 2

\* byte values; 0 is the byte the engine fills holes with
Bytes == {0, 1}

\* identifiers the engine can assign to a new object
EngineOids == {1}
\* identifiers a caller may pass: 0 is falsy, 2 never names an object
OidInputs == {0, 1, 2}
\* descriptors of one transaction, handed out lowest-free first
Fds == {0, 1}

(***************************************************************************)
(* Program constants.                                                      *)
(***************************************************************************)
SEEK_SET == 0
SEEK_CUR == 1
SEEK_END == 2

WRITE == 131072
READ == 262144
READWRITE == WRITE + READ

DefaultBufferSize == 16384

Modes == {WRITE, READ, READWRITE}
Whences == {SEEK_SET, SEEK_CUR, SEEK_END}

(***************************************************************************)
(* Byte strings.                                                           *)
(***************************************************************************)
Min(a, b) == IF a < b THEN a ELSE b
Max(a, b) == IF a > b THEN a ELSE b

BytesUpTo(n) == UNION {[1..k -> Bytes] : k \in 0..n}

Zeros(n) == [i \in 1..n |-> 0]

\* the bytes [from, to) of s, 0-based, empty when the range is empty
Slice(s, from, to) == IF to <= from THEN <<>> ELSE SubSeq(s, from + 1, Min(to, Len(s)))

(***************************************************************************)
(* JavaScript values of the numeric results.  The driver hands an int8     *)
(* column over as its decimal text; a column the row does not have reads   *)
(* as undefined.                                                           *)
(***************************************************************************)
Undefined == [t |-> "undefined", v |-> 0]
Num(n) == [t |-> "number", v |-> n]
Text(n) == [t |-> "string", v |-> n]

\* the unary + of tellAsync and sizeAsync
ToNumber(x) == IF x.t = "undefined" THEN [t |-> "NaN", v |-> 0] ELSE Num(x.v)

\* const [{ name }] = rows
Column(row, name) == IF name \in DOMAIN row THEN row[name] ELSE Undefined

(***************************************************************************)
(* The remote engine: objects and the descriptors of the transaction.      *)
(***************************************************************************)
NoErr == "none"
IllegalArgument == "Illegal Argument"
NotFound == "large object does not exist"
BadDescriptor == "invalid large-object descriptor"
NotWritable == "large object descriptor was not opened for writing"
BadSeek == "invalid seek offset"
BadLength == "requested length cannot be negative"
RemoteFailure == "remote failure"

NoObject == [exists |-> FALSE, data |-> <<>>]
ClosedFd == [open |-> FALSE, oid |-> 0, wr |-> FALSE, pos |-> 0, snap |-> <<>>]

EmptyDb == [objs |-> [o \in EngineOids |-> NoObject], fds |-> [f \in Fds |-> ClosedFd]]

\* the answer of a server function: the engine after it, its error, its value
Reply(d, e, v) == [db |-> d, err |-> e, val |-> v]
NoValue == Undefined

\* INV_WRITE is set in the mode; the descriptor keeps that flag (wr) only, so
\* WRITE and READWRITE open the same kind of descriptor
CanWrite(mode) == (mode \div WRITE) % 2 = 1

IsOpen(d, fd) == fd \in Fds /\ d.fds[fd].open
Exists(d, oid) == oid \in EngineOids /\ d.objs[oid].exists
FreeFds(d) == {f \in Fds : ~d.fds[f].open}
FreeOids(d) == {o \in EngineOids : ~d.objs[o].exists}

\* what the descriptor sees of its object: a descriptor opened without
\* INV_WRITE reads the object as it was when lo_open ran
View(d, fd) ==
  IF d.fds[fd].wr THEN d.objs[d.fds[fd].oid].data ELSE d.fds[fd].snap

lo_creat(d, newOid) ==
  Reply([d EXCEPT !.objs[newOid] = [exists |-> TRUE, data |-> <<>>]], NoErr,
        Num(newOid))

lo_open(d, oid, mode) ==
  IF ~Exists(d, oid) THEN Reply(d, NotFound, NoValue)
  ELSE LET fd == CHOOSE f \in FreeFds(d) : \A g \in FreeFds(d) : f <= g
       IN Reply([d EXCEPT !.fds[fd] =
                    [open |-> TRUE, oid |-> oid, wr |-> CanWrite(mode), pos |-> 0,
                     snap |-> IF CanWrite(mode) THEN <<>> ELSE d.objs[oid].data]],
                NoErr, Num(fd))

\* lo_unlink also closes the descriptors the transaction has on the object
lo_unlink(d, oid) ==
  IF ~Exists(d, oid) THEN Reply(d, NotFound, NoValue)
  ELSE Reply([objs |-> [d.objs EXCEPT ![oid] = NoObject],
              fds |-> [f \in Fds |-> IF d.fds[f].open /\ d.fds[f].oid = oid
                                     THEN ClosedFd ELSE d.fds[f]]],
             NoErr, Num(1))

lo_close(d, fd) ==
  IF ~IsOpen(d, fd) THEN Reply(d, BadDescriptor, NoValue)
  ELSE Reply([d EXCEPT !.fds[fd] = ClosedFd], NoErr, Num(0))

loread(d, fd, length) ==
  IF ~IsOpen(d, fd) THEN Reply(d, BadDescriptor, NoValue)
  ELSE IF length < 0 THEN Reply(d, BadLength, NoValue)
  ELSE LET p == d.fds[fd].pos
           got == Slice(View(d, fd), p, p + length)
       IN Reply([d EXCEPT !.fds[fd].pos = p + Len(got)], NoErr, got)

\* the object after buf is written at position p: a hole below p reads as zeros
Overwrite(old, p, buf) ==
  LET padded == IF Len(old) < p THEN old \o Zeros(p - Len(old)) ELSE old
  IN SubSeq(padded, 1, p) \o buf \o Slice(padded, p + Len(buf), Len(padded))

lowrite(d, fd, buf) ==
  IF ~IsOpen(d, fd) THEN Reply(d, BadDescriptor, NoValue)
  ELSE IF ~d.fds[fd].wr THEN Reply(d, NotWritable, NoValue)
  ELSE LET p == d.fds[fd].pos
           o == d.fds[fd].oid
       IN Reply([d EXCEPT !.objs[o].data = Overwrite(@, p, buf),
                          !.fds[fd].pos = p + Len(buf)],
                NoErr, Num(Len(buf)))

\* where a seek on an open descriptor lands
SeekTarget(d, fd, offset, whence) ==
  CASE whence = SEEK_SET -> offset
    [] whence = SEEK_CUR -> d.fds[fd].pos + offset
    [] whence = SEEK_END -> Len(View(d, fd)) + offset
    [] OTHER -> -1

lo_lseek64(d, fd, offset, whence) ==
  IF ~IsOpen(d, fd) THEN Reply(d, BadDescriptor, NoValue)
  ELSE LET target == SeekTarget(d, fd, offset, whence)
       IN IF target < 0 THEN Reply(d, BadSeek, NoValue)
          ELSE Reply([d EXCEPT !.fds[fd].pos = target], NoErr, Text(target))

lo_tell64(d, fd) ==
  IF ~IsOpen(d, fd) THEN Reply(d, BadDescriptor, NoValue)
  ELSE Reply(d, NoErr, Text(d.fds[fd].pos))

lo_truncate(d, fd, length) ==
  IF ~IsOpen(d, fd) THEN Reply(d, BadDescriptor, NoValue)
  ELSE IF ~d.fds[fd].wr THEN Reply(d, NotWritable, NoValue)
  ELSE IF length < 0 THEN Reply(d, BadLength, NoValue)
  ELSE LET o == d.fds[fd].oid
           old == d.objs[o].data
       IN Reply([d EXCEPT !.objs[o].data =
                    IF length <= Len(old) THEN SubSeq(old, 1, length)
                    ELSE old \o Zeros(length - Len(old))],
                NoErr, Num(0))


(***************************************************************************)
(* One request to the engine (the tagged template this._sql`...`): the     *)
(* statement's answer, or a failure of the transaction or the connection   *)
(* that leaves the engine as it was.                                       *)
(***************************************************************************)
Sql(d, answer, fail) == IF fail THEN Reply(d, RemoteFailure, NoValue) ELSE answer

\* what an async method settles with: the engine afterwards, the rejection
\* (NoErr when it resolves), the value, the bytes, and the requests it issued
Outcome(d, e, v, b, r) == [db |-> d, err |-> e, val |-> v, data |-> b, req |-> r]

Rejected(r) == Outcome(r.db, r.err, Undefined, <<>>, 1)

(***************************************************************************)
(* LargeObjectManager                                                      *)
(***************************************************************************)
\* !oid
Falsy(oid) == oid = 0

\* openAsync without its argument check
openAsync_unguarded(d, oid, mode, fail) ==
  LET r == Sql(d, lo_open(d, oid, mode), fail)
      row == [fd |-> r.val]
  IN IF r.err # NoErr THEN Rejected(r)
     ELSE Outcome(r.db, NoErr, Column(row, "fd"), <<>>, 1)

openAsync(d, oid, mode, fail) ==
  IF Falsy(oid) THEN Outcome(d, IllegalArgument, Undefined, <<>>, 0)
  ELSE LET r == Sql(d, lo_open(d, oid, mode), fail)
           row == [fd |-> r.val]
       IN IF r.err # NoErr THEN Rejected(r)
          ELSE Outcome(r.db, NoErr, Column(row, "fd"), <<>>, 1)

createAsync(d, newOid, fail) ==
  LET r == Sql(d, lo_creat(d, newOid), fail)
      row == [oid |-> r.val]
  IN IF r.err # NoErr THEN Rejected(r)
     ELSE Outcome(r.db, NoErr, Column(row, "oid"), <<>>, 1)

\* unlinkAsync that builds its statement and never awaits it: the driver
\* sends a statement only when it is awaited
unlinkAsync_unsent(d, oid, fail) ==
  IF Falsy(oid) THEN Outcome(d, IllegalArgument, Undefined, <<>>, 0)
  ELSE Outcome(d, NoErr, Undefined, <<>>, 0)

unlinkAsync(d, oid, fail) ==
  IF Falsy(oid) THEN Outcome(d, IllegalArgument, Undefined, <<>>, 0)
  ELSE LET r == Sql(d, lo_unlink(d, oid), fail)
       IN IF r.err # NoErr THEN Rejected(r)
          ELSE Outcome(r.db, NoErr, Undefined, <<>>, 1)

(***************************************************************************)
(* LargeObject                                                             *)
(***************************************************************************)
\* closeAsync that catches the rejection of its statement and resolves
closeAsync_swallows(d, fd, fail) ==
  LET r == Sql(d, lo_close(d, fd), fail)
  IN Outcome(r.db, NoErr, Undefined, <<>>, 1)

closeAsync(d, fd, fail) ==
  LET r == Sql(d, lo_close(d, fd), fail)
  IN IF r.err # NoErr THEN Rejected(r)
     ELSE Outcome(r.db, NoErr, Undefined, <<>>, 1)

\* readAsync that asks for the default buffer size whatever length it is given
readAsync_fixedLength(d, fd, length, fail) ==
  LET r == Sql(d, loread(d, fd, DefaultBufferSize), fail)
  IN IF r.err # NoErr THEN Rejected(r)
     ELSE Outcome(r.db, NoErr, Undefined, r.val, 1)

readAsync(d, fd, length, fail) ==
  LET r == Sql(d, loread(d, fd, length), fail)
  IN IF r.err # NoErr THEN Rejected(r)
     ELSE Outcome(r.db, NoErr, Undefined, r.val, 1)

writeAsync(d, fd, buffer, fail) ==
  LET r == Sql(d, lowrite(d, fd, buffer), fail)
  IN IF r.err # NoErr THEN Rejected(r)
     ELSE Outcome(r.db, NoErr, Undefined, <<>>, 1)

\* seekAsync that drops ref and always seeks from the current position
seekAsync_fromCurrent(d, fd, position, ref, fail) ==
  LET r == Sql(d, lo_lseek64(d, fd, position, SEEK_CUR), fail)
      row == [lo_lseek64 |-> r.val]
  IN IF r.err # NoErr THEN Rejected(r)
     ELSE Outcome(r.db, NoErr, Column(row, "location"), <<>>, 1)

\* the statement gives its column no name, so the row names it lo_lseek64
seekAsync(d, fd, position, ref, fail) ==
  LET r == Sql(d, lo_lseek64(d, fd, position, ref), fail)
      row == [lo_lseek64 |-> r.val]
  IN IF r.err # NoErr THEN Rejected(r)
     ELSE Outcome(r.db, NoErr, Column(row, "location"), <<>>, 1)

\* tellAsync without the unary +: the int8 stays the text the driver gave
tellAsync_unconverted(d, fd, fail) ==
  LET r == Sql(d, lo_tell64(d, fd), fail)
      row == [location |-> r.val]
  IN IF r.err # NoErr THEN Rejected(r)
     ELSE Outcome(r.db, NoErr, Column(row, "location"), <<>>, 1)

tellAsync(d, fd, fail) ==
  LET r == Sql(d, lo_tell64(d, fd), fail)
      row == [location |-> r.val]
  IN IF r.err # NoErr THEN Rejected(r)
     ELSE Outcome(r.db, NoErr, ToNumber(Column(row, "location")), <<>>, 1)

\* the size statement seeking back relative to the current position
SizeStatement_restoreRelative(d, fd) ==
  LET tell == lo_tell64(d, fd)
      seek == lo_lseek64(tell.db, fd, 0, 2)
      back == lo_lseek64(seek.db, fd, tell.val.v, 1)
  IN IF tell.err # NoErr THEN Reply(d, tell.err, NoValue)
     ELSE IF seek.err # NoErr THEN Reply(d, seek.err, NoValue)
     ELSE IF back.err # NoErr THEN Reply(d, back.err, NoValue)
     ELSE Reply(back.db, NoErr, [lo_lseek64 |-> back.val, size |-> seek.val])

\* the size statement without its outer select: the position stays at the end
SizeStatement_noRestore(d, fd) ==
  LET tell == lo_tell64(d, fd)
      seek == lo_lseek64(tell.db, fd, 0, 2)
  IN IF tell.err # NoErr THEN Reply(d, tell.err, NoValue)
     ELSE IF seek.err # NoErr THEN Reply(d, seek.err, NoValue)
     ELSE Reply(seek.db, NoErr, [lo_lseek64 |-> seek.val, size |-> seek.val])

\* one statement of three nested selects, evaluated innermost first:
\* tell, then seek to the end, then seek back to the position tell gave
SizeStatement(d, fd) ==
  LET tell == lo_tell64(d, fd)
      seek == lo_lseek64(tell.db, fd, 0, 2)
      back == lo_lseek64(seek.db, fd, tell.val.v, 0)
  IN IF tell.err # NoErr THEN Reply(d, tell.err, NoValue)
     ELSE IF seek.err # NoErr THEN Reply(d, seek.err, NoValue)
     ELSE IF back.err # NoErr THEN Reply(d, back.err, NoValue)
     ELSE Reply(back.db, NoErr, [lo_lseek64 |-> back.val, size |-> seek.val])

\* sizeAsync that takes the other column of the row, the restored position
sizeAsync_otherColumn(d, fd, fail) ==
  LET r == Sql(d, SizeStatement(d, fd), fail)
  IN IF r.err # NoErr THEN Rejected(r)
     ELSE Outcome(r.db, NoErr, ToNumber(Column(r.val, "lo_lseek64")), <<>>, 1)

sizeAsync(d, fd, fail) ==
  LET r == Sql(d, SizeStatement(d, fd), fail)
  IN IF r.err # NoErr THEN Rejected(r)
     ELSE Outcome(r.db, NoErr, ToNumber(Column(r.val, "size")), <<>>, 1)

\* truncateAsync that drops its argument and empties the object
truncateAsync_dropsLength(d, fd, length, fail) ==
  LET r == Sql(d, lo_truncate(d, fd, 0), fail)
  IN IF r.err # NoErr THEN Rejected(r)
     ELSE Outcome(r.db, NoErr, Undefined, <<>>, 1)

truncateAsync(d, fd, length, fail) ==
  LET r == Sql(d, lo_truncate(d, fd, length), fail)
  IN IF r.err # NoErr THEN Rejected(r)
     ELSE Outcome(r.db, NoErr, Undefined, <<>>, 1)


(***************************************************************************)
(* State.                                                                  *)
(*   db       the remote engine                                            *)
(*   handles  the LargeObject instances openAsync has returned             *)
(*   last     the call that settled last: its arguments, what it settled   *)
(*            with, the position of its descriptor before it, what the     *)
(*            engine answered its statement with and, for a truncate, the  *)
(*            object before it                                             *)
(*   fresh    per object, what has happened to its identifier: "new" after *)
(*            create, "written" (with the payload w) after a first write   *)
(*            made at the start of the new object, "spoiled" after any     *)
(*            other change, "unlinked" after unlink; per descriptor, how   *)
(*            far an open / read(len(w)) / tell sequence on a "written"    *)
(*            object has come                                              *)
(***************************************************************************)
VARIABLES db, handles, last, fresh

(***************************************************************************)
(* State of the composite stream operations.                               *)
(*   pending    the requests sent to the engine and not yet answered, in   *)
(*              the order sent (one connection answers in that order)      *)
(*   wr         createAndWritableStreamAsync and the WriteStream it returns*)
(*   rd         openAndReadableStreamAsync and the ReadStream it returns   *)
(*   produced   the bytes the producer has written to the WriteStream      *)
(*   delivered  the bytes the consumer has received from the ReadStream    *)
(*   trace      what has happened so far, in order: requests sent and      *)
(*              settled, what the producer did, what the streams and the   *)
(*              listeners of the Manager let their users see               *)
(***************************************************************************)
VARIABLES pending, wr, rd, produced, delivered, trace

hvars == <<handles, last, fresh>>
svars == <<pending, wr, rd, produced, delivered, trace>>
vars == <<db, handles, last, fresh, pending, wr, rd, produced, delivered, trace>>

NoCall ==
  [op |-> "none", fd |-> 0, oid |-> 0, n |-> 0, ref |-> 0, buf |-> <<>>,
   err |-> NoErr, val |-> Undefined, data |-> <<>>, req |-> 0, pos0 |-> 0,
   old |-> <<>>, eng |-> NoErr, q |-> FALSE, same |-> TRUE]

\* what the engine, asked in the current state, answers the one statement of
\* the call with: NoErr, or the error it fails the statement with
EngineError(op, fd, oid, n, ref, buf, fail) ==
  Sql(db,
      CASE op = "create" -> lo_creat(db, oid)
        [] op = "open" -> lo_open(db, oid, n)
        [] op = "unlink" -> lo_unlink(db, oid)
        [] op = "close" -> lo_close(db, fd)
        [] op = "read" -> loread(db, fd, n)
        [] op = "write" -> lowrite(db, fd, buf)
        [] op = "seek" -> lo_lseek64(db, fd, n, ref)
        [] op = "tell" -> lo_tell64(db, fd)
        [] op = "size" -> SizeStatement(db, fd)
        [] op = "truncate" -> lo_truncate(db, fd, n),
      fail).err

Call(op, fd, oid, n, ref, buf, out, q, fail) ==
  [op |-> op, fd |-> fd, oid |-> oid, n |-> n, ref |-> ref, buf |-> buf,
   err |-> out.err, val |-> out.val, data |-> out.data, req |-> out.req,
   pos0 |-> IF IsOpen(db, fd) THEN db.fds[fd].pos ELSE 0,
   old |-> IF op = "truncate" /\ IsOpen(db, fd) THEN db.objs[db.fds[fd].oid].data
           ELSE <<>>,
   eng |-> IF out.req = 0 THEN NoErr ELSE EngineError(op, fd, oid, n, ref, buf, fail),
   q |-> q, same |-> (out.db = db)]

NoFresh ==
  [st |-> [o \in EngineOids |-> "none"], w |-> [o \in EngineOids |-> <<>>],
   stage |-> [f \in Fds |-> "none"]]

\* the descriptors the engine has open on object o
FdsOn(d, o) == {f \in Fds : d.fds[f].open /\ d.fds[f].oid = o}

\* the object of descriptor fd was changed, or went away
Spoil(fr, o, st) ==
  [fr EXCEPT !.st[o] = st, !.w[o] = <<>>,
             !.stage = [f \in Fds |-> IF f \in FdsOn(db, o) THEN "none" ELSE @[f]]]

NoWriter ==
  [pc |-> "idle", oid |-> 0, fd |-> 0, has |-> FALSE, queue |-> <<>>,
   writing |-> FALSE, ending |-> FALSE, prefinished |-> FALSE, finished |-> FALSE,
   errors |-> 0, late |-> FALSE, close |-> "none"]

NoReader ==
  [pc |-> "idle", oid |-> 0, fd |-> 0, has |-> FALSE, size |-> Undefined,
   bufferSize |-> 0, hwm |-> 0,
   reading |-> FALSE, ended |-> FALSE, endEmitted |-> FALSE, errors |-> 0,
   buffer |-> <<>>, close |-> "none"]

Init ==
  /\ db = EmptyDb
  /\ handles = {}
  /\ last = NoCall
  /\ fresh = NoFresh
  /\ pending = <<>>
  /\ wr = NoWriter
  /\ rd = NoReader
  /\ produced = <<>>
  /\ delivered = <<>>
  /\ trace = <<>>

\* the caller awaits every call: it makes the next one when it has the result
Idle == last.op = "none"

\* inputs
\* under Spec the engine fails a request only for what the request asks (a
\* closed descriptor, a missing object, a read-only descriptor, a bad offset)
Failures == {FALSE}
LenInputs == -1..(MaxLen + 1)
SeekInputs == (0 - MaxLen)..MaxLen
Payloads == BytesUpTo(MaxLen)

Create(fail) ==
  \E newOid \in FreeOids(db) :
    LET out == createAsync(db, newOid, fail)
    IN /\ Idle
       /\ db' = out.db
       /\ last' = Call("create", 0, newOid, 0, 0, <<>>, out, FALSE, fail)
       /\ fresh' = IF out.err = NoErr THEN [fresh EXCEPT !.st[newOid] = "new"] ELSE fresh
       /\ UNCHANGED <<handles, svars>>

Open(oid, mode, fail) ==
  /\ Idle
  /\ Exists(db, oid) => FreeFds(db) # {}
  /\ LET out == openAsync(db, oid, mode, fail)
     IN /\ db' = out.db
        /\ last' = Call("open", 0, oid, mode, 0, <<>>, out, FALSE, fail)
        /\ handles' = IF out.err = NoErr
                      THEN handles \cup {[oid |-> oid, fd |-> out.val.v]}
                      ELSE handles
        /\ fresh' = IF out.err = NoErr
                    THEN [fresh EXCEPT !.stage[out.val.v] =
                            IF fresh.st[oid] = "written" THEN "opened" ELSE "none"]
                    ELSE fresh
        /\ UNCHANGED svars

Unlink(oid, fail) ==
  LET out == unlinkAsync(db, oid, fail)
  IN /\ Idle
     /\ db' = out.db
     /\ last' = Call("unlink", 0, oid, 0, 0, <<>>, out, FALSE, fail)
     /\ fresh' = IF out.err = NoErr THEN Spoil(fresh, oid, "unlinked") ELSE fresh
     /\ UNCHANGED <<handles, svars>>

Close(h, fail) ==
  LET out == closeAsync(db, h.fd, fail)
  IN /\ Idle
     /\ db' = out.db
     /\ last' = Call("close", h.fd, h.oid, 0, 0, <<>>, out, FALSE, fail)
     /\ fresh' = [fresh EXCEPT !.stage[h.fd] = "none"]
     /\ UNCHANGED <<handles, svars>>

Read(h, length, fail) ==
  LET out == readAsync(db, h.fd, length, fail)
      q == fresh.stage[h.fd] = "opened" /\ length = Len(fresh.w[h.oid])
  IN /\ Idle
     /\ db' = out.db
     /\ last' = Call("read", h.fd, h.oid, length, 0, <<>>, out, q, fail)
     /\ fresh' = [fresh EXCEPT !.stage[h.fd] =
                    IF q /\ out.err = NoErr THEN "read" ELSE "none"]
     /\ UNCHANGED <<handles, svars>>

Write(h, buffer, fail) ==
  /\ Idle
  /\ IsOpen(db, h.fd) => db.fds[h.fd].pos + Len(buffer) <= MaxLen
  /\ LET out == writeAsync(db, h.fd, buffer, fail)
         o == db.fds[h.fd].oid
         first == fresh.st[o] = "new" /\ db.fds[h.fd].pos = 0 /\ buffer # <<>>
     IN /\ db' = out.db
        /\ last' = Call("write", h.fd, h.oid, 0, 0, buffer, out, FALSE, fail)
        /\ fresh' = IF out.err # NoErr THEN [fresh EXCEPT !.stage[h.fd] = "none"]
                    ELSE IF first THEN [fresh EXCEPT !.st[o] = "written", !.w[o] = buffer,
                                                     !.stage[h.fd] = "none"]
                    ELSE Spoil(fresh, o, "spoiled")
        /\ UNCHANGED <<handles, svars>>

Seek(h, position, ref, fail) ==
  LET out == seekAsync(db, h.fd, position, ref, fail)
  IN /\ Idle
     /\ IsOpen(db, h.fd) => SeekTarget(db, h.fd, position, ref) \in -1..MaxLen
     /\ db' = out.db
     /\ last' = Call("seek", h.fd, h.oid, position, ref, <<>>, out, FALSE, fail)
     /\ fresh' = [fresh EXCEPT !.stage[h.fd] = "none"]
     /\ UNCHANGED <<handles, svars>>

Tell(h, fail) ==
  LET out == tellAsync(db, h.fd, fail)
  IN /\ Idle
     /\ db' = out.db
     /\ last' = Call("tell", h.fd, h.oid, 0, 0, <<>>, out, fresh.stage[h.fd] = "read", fail)
     /\ fresh' = [fresh EXCEPT !.stage[h.fd] = "none"]
     /\ UNCHANGED <<handles, svars>>

Size(h, fail) ==
  LET out == sizeAsync(db, h.fd, fail)
  IN /\ Idle
     /\ db' = out.db
     /\ last' = Call("size", h.fd, h.oid, 0, 0, <<>>, out, FALSE, fail)
     /\ fresh' = [fresh EXCEPT !.stage[h.fd] = "none"]
     /\ UNCHANGED <<handles, svars>>

Truncate(h, length, fail) ==
  /\ Idle
  /\ length <= MaxLen
  /\ LET out == truncateAsync(db, h.fd, length, fail)
     IN /\ db' = out.db
        /\ last' = Call("truncate", h.fd, h.oid, length, 0, <<>>, out, FALSE, fail)
        /\ fresh' = IF out.err = NoErr THEN Spoil(fresh, db.fds[h.fd].oid, "spoiled")
                    ELSE [fresh EXCEPT !.stage[h.fd] = "none"]
        /\ UNCHANGED <<handles, svars>>

\* the caller takes the result of the call it awaited and goes on
Return ==
  /\ last.op # "none"
  /\ last' = NoCall
  /\ UNCHANGED <<db, handles, fresh, svars>>

Next ==
  \/ \E fail \in Failures : Create(fail)
  \/ \E oid \in OidInputs, mode \in Modes, fail \in Failures : Open(oid, mode, fail)
  \/ \E oid \in OidInputs, fail \in Failures : Unlink(oid, fail)
  \/ \E h \in handles, fail \in Failures : Close(h, fail)
  \/ \E h \in handles, length \in LenInputs, fail \in Failures : Read(h, length, fail)
  \/ \E h \in handles, buffer \in Payloads, fail \in Failures : Write(h, buffer, fail)
  \/ \E h \in handles, position \in SeekInputs, ref \in Whences, fail \in Failures :
       Seek(h, position, ref, fail)
  \/ \E h \in handles, fail \in Failures : Tell(h, fail)
  \/ \E h \in handles, fail \in Failures : Size(h, fail)
  \/ \E h \in handles, length \in LenInputs, fail \in Failures : Truncate(h, length, fail)
  \/ Return

Spec == Init /\ [][Next]_vars

(***************************************************************************)
(* The same calls with an engine that may also fail any request for a      *)
(* reason of its own (the transaction aborted, the connection was lost),   *)
(* on fewer arguments.                                                     *)
(***************************************************************************)
EngineFailures == BOOLEAN
FailModes == {READ, READWRITE}
FailLens == {0, 1}
FailPayloads == {<<1>>}
FailSeeks == {-1, 0}
FailWhences == {SEEK_SET, SEEK_END}

NextFail ==
  \/ \E fail \in EngineFailures : Create(fail)
  \/ \E oid \in OidInputs, mode \in FailModes, fail \in EngineFailures : Open(oid, mode, fail)
  \/ \E oid \in OidInputs, fail \in EngineFailures : Unlink(oid, fail)
  \/ \E h \in handles, fail \in EngineFailures : Close(h, fail)
  \/ \E h \in handles, length \in FailLens, fail \in EngineFailures : Read(h, length, fail)
  \/ \E h \in handles, buffer \in FailPayloads, fail \in EngineFailures : Write(h, buffer, fail)
  \/ \E h \in handles, position \in FailSeeks, ref \in FailWhences, fail \in EngineFailures :
       Seek(h, position, ref, fail)
  \/ \E h \in handles, fail \in EngineFailures : Tell(h, fail)
  \/ \E h \in handles, fail \in EngineFailures : Size(h, fail)
  \/ \E h \in handles, length \in FailLens, fail \in EngineFailures : Truncate(h, length, fail)
  \/ Return

SpecFail == Init /\ [][NextFail]_vars


(***************************************************************************)
(* Claims about the Handle and the Manager, under Spec.                    *)
(***************************************************************************)
Ok(op) == last.op = op /\ last.err = NoErr

\* the bytes [p, p + k) of s, 0-based
BytesAt(s, p, k) == [i \in 1..k |-> s[p + i]]

\* what descriptor fd sees of its object in the current state
Seen(fd) == View(db, fd)

\* C1: a non-empty payload W written at the start of a new object is what a
\* later open followed by read(len(W)) returns, and tell() on that handle
\* then returns len(W).
C1_WriteThenReadBack ==
  /\ (Ok("read") /\ last.q) => last.data = fresh.w[last.oid]
  /\ (Ok("tell") /\ last.q) => last.val = Num(Len(fresh.w[last.oid]))

C1_Witness ==
  /\ Ok("tell") /\ last.q
  /\ Len(fresh.w[last.oid]) >= 2
  /\ last.val = Num(Len(fresh.w[last.oid]))

\* C2: size() leaves the position where it was: a tell() issued after a
\* size() returns the position the handle had before the size().
C2_SizeKeepsPosition ==
  Ok("size") => tellAsync(db, last.fd, FALSE).val = Num(last.pos0)

C2_Witness ==
  /\ Ok("size")
  /\ last.pos0 > 0 /\ last.pos0 < Len(Seen(last.fd))
  /\ tellAsync(db, last.fd, FALSE).val = Num(last.pos0)

\* C3: size() returns the length of the object as the handle sees it,
\* wherever the handle's position is.
C3_SizeIsLength ==
  Ok("size") => last.val = Num(Len(Seen(last.fd)))

C3_Witness ==
  /\ Ok("size")
  /\ last.val = Num(2)
  /\ last.pos0 = 1

\* C4: read(n) at position p of an object of length L returns the bytes
\* [p, min(p + n, L)); it is shorter than n exactly when fewer than n bytes
\* remained, and the position afterwards is p plus the returned length.
C4_ReadReturnsRange ==
  Ok("read") =>
    LET p == last.pos0
        n == last.n
        L == Len(Seen(last.fd))
        remained == Max(0, L - p)
    IN /\ last.data = BytesAt(Seen(last.fd), p, Min(n, remained))
       /\ Len(last.data) <= n
       /\ (Len(last.data) < n) <=> (remained < n)
       /\ db.fds[last.fd].pos = p + Len(last.data)

C4_Witness ==
  /\ Ok("read")
  /\ last.pos0 > 0
  /\ Len(last.data) > 0 /\ Len(last.data) < last.n

\* C5: for 0 <= N <= L, seek(-N, SEEK_END) from any position followed by a
\* read of at least N bytes returns the last N bytes of the object.
C5_SeekFromEnd ==
  (Ok("seek") /\ last.ref = SEEK_END /\ last.n <= 0
     /\ 0 - last.n <= Len(Seen(last.fd))) =>
    LET N == 0 - last.n
        L == Len(Seen(last.fd))
    IN \A m \in N..(MaxLen + 1) :
         LET r == readAsync(db, last.fd, m, FALSE)
         IN r.err = NoErr /\ r.data = BytesAt(Seen(last.fd), L - N, N)

C5_Witness ==
  /\ Ok("seek") /\ last.ref = SEEK_END /\ last.n = -1
  /\ Len(Seen(last.fd)) = 2 /\ last.pos0 = 2
  /\ readAsync(db, last.fd, MaxLen + 1, FALSE).data = <<Seen(last.fd)[2]>>

\* C6: seek(position, whence) resolves with the resulting position, the value
\* a tell() issued right after it returns.
C6_SeekReturnsPosition ==
  Ok("seek") => last.val = tellAsync(db, last.fd, FALSE).val

\* C8: open and unlink with a falsy oid fail with 'Illegal Argument', issue
\* no request and leave the engine as it was.
C8_FalsyOidRejected ==
  (last.op \in {"open", "unlink"} /\ Falsy(last.oid)) =>
    /\ last.err = IllegalArgument
    /\ last.req = 0
    /\ last.same

C8_Witness ==
  /\ last.op = "open" /\ Falsy(last.oid)
  /\ last.err = IllegalArgument /\ last.req = 0
  /\ \E o \in EngineOids : Exists(db, o)
  /\ FdsOn(db, 1) # {}

\* C9: once unlink(oid) has succeeded, open(oid, mode) fails with the
\* engine's not-found error and returns no handle, until an object with
\* that identifier is created again.
C9_OpenAfterUnlinkFails ==
  (last.op = "open" /\ last.oid \in EngineOids /\ fresh.st[last.oid] = "unlinked") =>
    /\ last.err = NotFound
    /\ last.val = Undefined

C9_Witness ==
  /\ last.op = "open" /\ last.oid \in EngineOids
  /\ fresh.st[last.oid] = "unlinked"
  /\ last.err = NotFound

\* C19: after close() has succeeded on a handle, every later call on that
\* handle (read, write, seek, tell, size, truncate, close) is rejected and
\* changes nothing, whatever the caller did in between, such as opening the
\* object again.
C19_ClosedHandleFails ==
  Ok("close") =>
    \A mode \in Modes :
      LET d == openAsync(db, last.oid, mode, FALSE).db
          later == {readAsync(d, last.fd, 1, FALSE),
                    writeAsync(d, last.fd, <<1>>, FALSE),
                    seekAsync(d, last.fd, 0, SEEK_SET, FALSE),
                    tellAsync(d, last.fd, FALSE),
                    sizeAsync(d, last.fd, FALSE),
                    truncateAsync(d, last.fd, 0, FALSE),
                    closeAsync(d, last.fd, FALSE)}
      IN \A out \in later : out.err # NoErr /\ out.db.objs = d.objs

\* C20: truncate(n) makes the object n bytes long and leaves the position of
\* the handle where it was; the bytes below the old length are kept and,
\* when the object grew, the bytes from the old length on are zero.
C20_TruncateSetsLength ==
  Ok("truncate") =>
    LET now == db.objs[db.fds[last.fd].oid].data
    IN /\ Len(now) = last.n
       /\ \A i \in 1..last.n : now[i] = IF i <= Len(last.old) THEN last.old[i] ELSE 0
       /\ Seen(last.fd) = now
       /\ db.fds[last.fd].pos = last.pos0
       /\ tellAsync(db, last.fd, FALSE).val = Num(last.pos0)

C20_Witness ==
  /\ Ok("truncate")
  /\ last.old = <<1>> /\ last.n = 2 /\ last.pos0 = 1
  /\ Seen(last.fd) = <<1, 0>>
  /\ tellAsync(db, last.fd, FALSE).val = Num(1)

\* C21: a call whose statement the engine fails is rejected with the engine's
\* error; it has sent that one statement and no other, has changed nothing
\* and returns nothing.  A call resolves only if the engine answered.
C21_EngineErrorSurfaces ==
  (last.op # "none" /\ last.req > 0) =>
    /\ last.req = 1
    /\ last.err = last.eng
    /\ (last.eng # NoErr) =>
         /\ last.same
         /\ last.val = Undefined
         /\ last.data = <<>>

C21_Witness ==
  /\ last.op = "size" /\ last.req = 1
  /\ last.eng = RemoteFailure /\ last.err = RemoteFailure
  /\ last.pos0 = 1
  /\ IsOpen(db, last.fd)


(***************************************************************************)
(* The stream adapters and the composite operations of the Manager.        *)
(*                                                                         *)
(* A request is sent when an async method is called and answered later;    *)
(* what runs between two awaits, or inside one callback, is one step.      *)
(* stream.Readable and stream.Writable are the host's: a Readable calls    *)
(* _read only while no _read is outstanding (push ends it) and the stream  *)
(* has not ended; a Writable calls _write for one chunk at a time, keeps   *)
(* the chunks written meanwhile, and emits 'finish' after end() once the   *)
(* last _write has called back without an error.  A Writable whose _write  *)
(* called back with an error emits 'error' and is errored: it calls        *)
(* _write no more, refuses the chunks written to it afterwards and does    *)
(* not emit 'finish'.                                                      *)
(***************************************************************************)
BufferSizes == {0, 1, 2}
Chunks == BytesUpTo(MaxLen) \ {<<>>}
StreamFailures == BOOLEAN

Req(k, side, oid, fd, n, buf) ==
  [k |-> k, side |-> side, oid |-> oid, fd |-> fd, n |-> n, buf |-> buf]

Sent(k, side) == pending # <<>> /\ Head(pending).k = k /\ Head(pending).side = side

Outstanding(k, side) ==
  Cardinality({i \in DOMAIN pending : pending[i].k = k /\ pending[i].side = side})

\* what is recorded in trace
Ev(e, k, side, fd, n, buf, err) ==
  [e |-> e, k |-> k, side |-> side, fd |-> fd, n |-> n, buf |-> buf, err |-> err]

\* requests sent
Asked(reqs) ==
  [i \in 1..Len(reqs) |->
     Ev("req", reqs[i].k, reqs[i].side, reqs[i].fd, reqs[i].n, reqs[i].buf, NoErr)]

\* a request settled, with the bytes it returned
Settled(req, out) ==
  <<Ev("ans", req.k, req.side, req.fd, req.n, out.data, out.err)>>

\* something a stream, or a listener of the Manager, lets its user see
Signal(e, side, buf, err) == <<Ev(e, "", side, 0, 0, buf, err)>>

\* the 'error' event and the console.error warning a step produced
Raised(side, old, new, err) ==
  (IF new.errors > old.errors THEN Signal("error", side, <<>>, err) ELSE <<>>)
  \o (IF new.close = "warned" /\ old.close # "warned"
      THEN Signal("warn", side, <<>>, err) ELSE <<>>)

\* listeners that were registered after the caller's
Listeners_callerFirst(own, callers) == callers \o own

\* stream.on(...) in the composite operation, before the stream is returned:
\* the listeners of an event run in the order they were registered, so the
\* Manager's own runs before any the caller adds to the returned stream
Listeners(own, callers) == own \o callers

\* one listener of 'end' or 'finish' runs: the Manager's sends reqs, the
\* caller's is notified
Notify(l, side, reqs) ==
  IF l = "manager" THEN Asked(reqs) ELSE Signal("notified", side, <<>>, NoErr)

\* 'end' or 'finish' is emitted
Emit(e, side, reqs) ==
  LET ls == Listeners(<<"manager">>, <<"caller">>)
  IN Signal(e, side, <<>>, NoErr) \o Notify(ls[1], side, reqs) \o Notify(ls[2], side, reqs)

\* what a callback of the caller throws
CallbackThrew == "callback threw"

\* the callback forms: promise.then(([v, stream]) => callback(undefined, v,
\* stream)).catch((err) => callback(err)).  The catch is chained behind the
\* then, so it also gets what the callback throws in the then
Callbackified(side, err, throws) ==
  IF err # NoErr THEN Signal("callback", side, <<>>, err)
  ELSE IF throws
  THEN Signal("callback", side, <<>>, NoErr) \o Signal("callback", side, <<>>, CallbackThrew)
  ELSE Signal("callback", side, <<>>, NoErr)

\* highWaterMark: bufferSize || 16384
HighWaterMark(bufferSize) == IF bufferSize = 0 THEN DefaultBufferSize ELSE bufferSize

Concat(chunks) ==
  LET RECURSIVE cat(_)
      cat(q) == IF q = <<>> THEN <<>> ELSE Head(q) \o cat(Tail(q))
  IN cat(chunks)

\* the listener that reports a failed close on the stream as well
AutoCloseSettled_emitsError(st, err) ==
  IF err = NoErr THEN [st EXCEPT !.close = "done"]
  ELSE [st EXCEPT !.close = "warned", !.errors = @ + 1]

\* await obj.closeAsync() settled in a listener that closes automatically: a
\* rejection goes to console.error, the stream is not told
AutoCloseSettled(st, err) ==
  [st EXCEPT !.close = IF err = NoErr THEN "done" ELSE "warned"]

\* ------------------------------------------------------------ WriteStream
\* _write that sends its chunk twice
WriteStream_write_twice(fd, chunk) ==
  <<Req("write", "w", 0, fd, 0, chunk), Req("write", "w", 0, fd, 0, chunk)>>

\* _write: one write request for the chunk, its callback the stream's
WriteStream_write(fd, chunk) == <<Req("write", "w", 0, fd, 0, chunk)>>

\* _write that calls the stream's callback without the error of the write
WriteStream_callback_swallows(err) == NoErr

\* largeObject.write(chunk, callback): what the write settles with is what
\* the stream's callback is called with
WriteStream_callback(err) == err

\* stream.write(chunk) of the host: _write now, or queued behind the one
\* running; refused once the stream is errored
Writable_write(st, chunk) ==
  IF st.errors > 0 THEN [st |-> [st EXCEPT !.late = TRUE], reqs |-> <<>>]
  ELSE IF st.writing THEN [st |-> [st EXCEPT !.queue = Append(@, chunk)], reqs |-> <<>>]
  ELSE [st |-> [st EXCEPT !.writing = TRUE], reqs |-> WriteStream_write(st.fd, chunk)]

\* the callback _write handed to largeObject.write: an error is emitted; else
\* the next queued chunk is written, or the stream is ready to finish
Writable_onwrite(st, err) ==
  IF err # NoErr
  THEN [st |-> [st EXCEPT !.writing = FALSE, !.errors = @ + 1], reqs |-> <<>>]
  ELSE IF st.queue # <<>>
  THEN [st |-> [st EXCEPT !.queue = Tail(@)], reqs |-> WriteStream_write(st.fd, Head(st.queue))]
  ELSE [st |-> [st EXCEPT !.writing = FALSE, !.prefinished = st.ending], reqs |-> <<>>]

\* end() that finishes at once, whatever is still being written
Writable_end_eager(st) ==
  [st EXCEPT !.ending = TRUE, !.prefinished = st.errors = 0]

\* stream.end() of the host
Writable_end(st) ==
  [st EXCEPT !.ending = TRUE,
             !.prefinished = ~st.writing /\ st.queue = <<>> /\ st.errors = 0]

\* the 'finish' listener that closes twice
OnFinish_closesTwice(fd) ==
  <<Req("close", "w", 0, fd, 0, <<>>), Req("close", "w", 0, fd, 0, <<>>)>>

\* stream.on('finish', ...): obj.closeAsync() is called
OnFinish(fd) == <<Req("close", "w", 0, fd, 0, <<>>)>>

CreateAndWritableStream(bufferSize) ==
  /\ wr.pc = "idle"
  /\ LET reqs == <<Req("create", "w", 0, 0, 0, <<>>)>>
     IN /\ pending' = pending \o reqs
        /\ trace' = trace \o Asked(reqs)
  /\ wr' = [wr EXCEPT !.pc = "creating"]
  /\ UNCHANGED <<db, hvars, rd, produced, delivered>>

\* const oid = await this.createAsync(); then openAsync(oid, WRITE) is called
WriterCreated(fail) ==
  /\ Sent("create", "w")
  /\ \E newOid \in FreeOids(db) :
       LET out == createAsync(db, newOid, fail)
           reqs == IF out.err # NoErr \/ Falsy(out.val.v) THEN <<>>
                   ELSE <<Req("open", "w", out.val.v, 0, WRITE, <<>>)>>
       IN /\ db' = out.db
          /\ wr' = IF reqs = <<>> THEN [wr EXCEPT !.pc = "rejected"]
                   ELSE [wr EXCEPT !.pc = "opening", !.oid = out.val.v]
          /\ pending' = Tail(pending) \o reqs
          /\ trace' = trace \o Settled(Head(pending), out) \o Asked(reqs)
                      \o (IF reqs = <<>>
                          THEN Callbackified("w", IF out.err # NoErr THEN out.err
                                                  ELSE IllegalArgument, FALSE)
                          ELSE <<>>)
  /\ UNCHANGED <<hvars, rd, produced, delivered>>

\* const obj = await this.openAsync(...); the stream is made, its 'finish'
\* listener registered, and [oid, stream] returned to the caller's callback,
\* which may throw and then leaves the stream alone
WriterOpened(fail, throws) ==
  /\ Sent("open", "w")
  /\ LET out == openAsync(db, Head(pending).oid, Head(pending).n, fail)
     IN /\ db' = out.db
        /\ wr' = IF out.err # NoErr THEN [wr EXCEPT !.pc = "rejected"]
                 ELSE [wr EXCEPT !.pc = IF throws THEN "thrown" ELSE "open",
                                 !.fd = out.val.v, !.has = TRUE]
        /\ trace' = trace \o Settled(Head(pending), out)
                    \o Callbackified("w", out.err, throws)
  /\ pending' = Tail(pending)
  /\ UNCHANGED <<hvars, rd, produced, delivered>>

\* the producer writes a chunk; after an 'error' it may try one more
ProducerWrite(chunk) ==
  /\ wr.pc = "open" /\ ~wr.ending /\ ~wr.late
  /\ Len(produced) + Len(chunk) <= MaxLen
  /\ LET w == Writable_write(wr, chunk)
     IN /\ wr' = w.st
        /\ pending' = pending \o w.reqs
        /\ produced' = IF w.st.late THEN produced ELSE produced \o chunk
        /\ trace' = trace
                    \o Signal(IF w.st.late THEN "refused" ELSE "write", "w", chunk, NoErr)
                    \o Asked(w.reqs)
  /\ UNCHANGED <<db, hvars, rd, delivered>>

ProducerEnd ==
  /\ wr.pc = "open" /\ ~wr.ending
  /\ wr' = Writable_end(wr)
  /\ trace' = trace \o Signal("endcall", "w", <<>>, NoErr)
  /\ UNCHANGED <<db, hvars, pending, rd, produced, delivered>>

WriteAnswered(fail) ==
  /\ Sent("write", "w")
  /\ LET out == writeAsync(db, Head(pending).fd, Head(pending).buf, fail)
         w == Writable_onwrite(wr, WriteStream_callback(out.err))
     IN /\ db' = out.db
        /\ wr' = w.st
        /\ pending' = Tail(pending) \o w.reqs
        /\ trace' = trace \o Settled(Head(pending), out)
                    \o Raised("w", wr, w.st, out.err) \o Asked(w.reqs)
  /\ UNCHANGED <<hvars, rd, produced, delivered>>

\* 'finish' is emitted: the listener of createAndWritableStreamAsync calls
\* obj.closeAsync()
WriterFinish ==
  /\ wr.prefinished /\ ~wr.finished
  /\ wr' = [wr EXCEPT !.finished = TRUE, !.close = "sent"]
  /\ pending' = pending \o OnFinish(wr.fd)
  /\ trace' = trace \o Emit("finish", "w", OnFinish(wr.fd))
  /\ UNCHANGED <<db, hvars, rd, produced, delivered>>

\* await obj.closeAsync() in the listener: a rejection is written to console.error
WriterClosed(fail) ==
  /\ Sent("close", "w")
  /\ LET out == closeAsync(db, Head(pending).fd, fail)
         st == AutoCloseSettled(wr, out.err)
     IN /\ db' = out.db
        /\ wr' = st
        /\ trace' = trace \o Settled(Head(pending), out) \o Raised("w", wr, st, out.err)
  /\ pending' = Tail(pending)
  /\ UNCHANGED <<hvars, rd, produced, delivered>>

\* ------------------------------------------------------------- ReadStream
\* _read that reads ahead: a second read is sent before the first is answered
ReadStream_read_ahead(fd, length) ==
  IF length <= 0 THEN <<>>
  ELSE <<Req("read", "r", 0, fd, length, <<>>), Req("read", "r", 0, fd, length, <<>>)>>

\* _read that asks for the default size whatever the stream was made with
ReadStream_read_default(fd, length) ==
  IF length <= 0 THEN <<>> ELSE <<Req("read", "r", 0, fd, DefaultBufferSize, <<>>)>>

\* _read(length): one read request, or a throw when length <= 0
ReadStream_read(fd, length) ==
  IF length <= 0 THEN <<>> ELSE <<Req("read", "r", 0, fd, length, <<>>)>>

\* stream.push(chunk) of the host: the outstanding _read is over; an empty
\* chunk adds nothing
Readable_push(st, chunk) ==
  [st EXCEPT !.reading = FALSE,
             !.buffer = IF Len(chunk) > 0 THEN Append(@, chunk) ELSE @]

\* stream.push(null) of the host
Readable_pushNull(st) == [st EXCEPT !.reading = FALSE, !.ended = TRUE]

\* the callback with <= for <: a full chunk ends the stream too
ReadStream_onRead_fullEnds(st, err, data, length) ==
  IF err # NoErr THEN [st EXCEPT !.errors = @ + 1]
  ELSE IF Len(data) <= length THEN Readable_pushNull(Readable_push(st, data))
  ELSE Readable_push(st, data)

\* the callback that ends the stream on an empty read only
ReadStream_onRead_endsOnEmpty(st, err, data, length) ==
  IF err # NoErr THEN [st EXCEPT !.errors = @ + 1]
  ELSE IF Len(data) = 0 THEN Readable_pushNull(Readable_push(st, data))
  ELSE Readable_push(st, data)

\* the callback that ends the stream after it emitted the error
ReadStream_onRead_errorEnds(st, err, data, length) ==
  IF err # NoErr THEN Readable_pushNull([st EXCEPT !.errors = @ + 1])
  ELSE IF Len(data) < length THEN Readable_pushNull(Readable_push(st, data))
  ELSE Readable_push(st, data)

\* the callback _read hands to largeObject.read
ReadStream_onRead(st, err, data, length) ==
  IF err # NoErr THEN [st EXCEPT !.errors = @ + 1]
  ELSE IF Len(data) < length THEN Readable_pushNull(Readable_push(st, data))
  ELSE Readable_push(st, data)

BufferedBytes(st) == Len(Concat(st.buffer))

\* the 'end' listener that does not close
OnEnd_noClose(fd) == <<>>

\* stream.on('end', ...): obj.closeAsync() is called
OnEnd(fd) == <<Req("close", "r", 0, fd, 0, <<>>)>>

\* the object is read back once the WriteStream is done with it
OpenAndReadableStream(bufferSize) ==
  /\ rd.pc = "idle"
  /\ wr.pc = "open" /\ (wr.finished \/ wr.errors > 0)
  /\ LET reqs == IF Falsy(wr.oid) THEN <<>>
                 ELSE <<Req("open", "r", wr.oid, 0, READ, <<>>)>>
     IN /\ rd' = IF reqs = <<>> THEN [rd EXCEPT !.pc = "rejected"]
                 ELSE [rd EXCEPT !.pc = "opening", !.oid = wr.oid,
                                 !.bufferSize = bufferSize,
                                 !.hwm = HighWaterMark(bufferSize)]
        /\ pending' = pending \o reqs
        /\ trace' = trace \o Asked(reqs)
                    \o (IF reqs = <<>> THEN Callbackified("r", IllegalArgument, FALSE)
                        ELSE <<>>)
  /\ UNCHANGED <<db, hvars, wr, produced, delivered>>

\* const obj = await this.openAsync(oid, READ); then obj.sizeAsync() is called
ReaderOpened(fail) ==
  /\ Sent("open", "r")
  /\ LET out == openAsync(db, Head(pending).oid, Head(pending).n, fail)
         reqs == IF out.err # NoErr THEN <<>>
                 ELSE <<Req("size", "r", 0, out.val.v, 0, <<>>)>>
     IN /\ db' = out.db
        /\ rd' = IF out.err # NoErr THEN [rd EXCEPT !.pc = "rejected"]
                 ELSE [rd EXCEPT !.pc = "sizing", !.fd = out.val.v, !.has = TRUE]
        /\ pending' = Tail(pending) \o reqs
        /\ trace' = trace \o Settled(Head(pending), out) \o Asked(reqs)
                    \o (IF reqs = <<>> THEN Callbackified("r", out.err, FALSE) ELSE <<>>)
  /\ UNCHANGED <<hvars, wr, produced, delivered>>

\* const size = await obj.sizeAsync(); the stream is made, its 'end' listener
\* registered, and [size, stream] returned to the caller's callback, which
\* may throw and then leaves the stream alone
ReaderSized(fail, throws) ==
  /\ Sent("size", "r")
  /\ LET out == sizeAsync(db, Head(pending).fd, fail)
     IN /\ db' = out.db
        /\ rd' = IF out.err # NoErr THEN [rd EXCEPT !.pc = "rejected"]
                 ELSE [rd EXCEPT !.pc = IF throws THEN "thrown" ELSE "open",
                                 !.size = out.val]
        /\ trace' = trace \o Settled(Head(pending), out)
                    \o Callbackified("r", out.err, throws)
  /\ pending' = Tail(pending)
  /\ UNCHANGED <<hvars, wr, produced, delivered>>

\* the host asks for data: it calls _read(highWaterMark), as it does for
\* pipe(), for 'data' listeners, for async iteration and for read()
ConsumerPull ==
  /\ rd.pc = "open" /\ ~rd.reading /\ ~rd.ended
  /\ BufferedBytes(rd) < rd.hwm
  /\ rd' = [rd EXCEPT !.reading = TRUE]
  /\ pending' = pending \o ReadStream_read(rd.fd, rd.hwm)
  /\ trace' = trace \o <<Ev("pull", "", "r", rd.fd, rd.hwm, <<>>, NoErr)>>
              \o Asked(ReadStream_read(rd.fd, rd.hwm))
  /\ UNCHANGED <<db, hvars, wr, produced, delivered>>

ReadAnswered(fail) ==
  /\ Sent("read", "r")
  /\ LET out == readAsync(db, Head(pending).fd, Head(pending).n, fail)
         st == ReadStream_onRead(rd, out.err, out.data, Head(pending).n)
     IN /\ db' = out.db
        /\ rd' = st
        /\ trace' = trace \o Settled(Head(pending), out) \o Raised("r", rd, st, out.err)
  /\ pending' = Tail(pending)
  /\ UNCHANGED <<hvars, wr, produced, delivered>>

\* a 'data' event: the consumer gets the oldest chunk
ConsumerData ==
  /\ rd.buffer # <<>>
  /\ delivered' = delivered \o Head(rd.buffer)
  /\ rd' = [rd EXCEPT !.buffer = Tail(@)]
  /\ trace' = trace \o Signal("data", "r", Head(rd.buffer), NoErr)
  /\ UNCHANGED <<db, hvars, pending, wr, produced>>

\* 'end' is emitted: the listener of openAndReadableStreamAsync calls
\* obj.closeAsync()
ReaderEnd ==
  /\ rd.ended /\ rd.buffer = <<>> /\ ~rd.endEmitted
  /\ rd' = [rd EXCEPT !.endEmitted = TRUE,
                      !.close = IF OnEnd(rd.fd) = <<>> THEN @ ELSE "sent"]
  /\ pending' = pending \o OnEnd(rd.fd)
  /\ trace' = trace \o Emit("end", "r", OnEnd(rd.fd))
  /\ UNCHANGED <<db, hvars, wr, produced, delivered>>

ReaderClosed(fail) ==
  /\ Sent("close", "r")
  /\ LET out == closeAsync(db, Head(pending).fd, fail)
         st == AutoCloseSettled(rd, out.err)
     IN /\ db' = out.db
        /\ rd' = st
        /\ trace' = trace \o Settled(Head(pending), out) \o Raised("r", rd, st, out.err)
  /\ pending' = Tail(pending)
  /\ UNCHANGED <<hvars, wr, produced, delivered>>

StreamNext ==
  \/ \E bufferSize \in BufferSizes : CreateAndWritableStream(bufferSize)
  \/ \E fail \in StreamFailures : WriterCreated(fail)
  \/ \E fail \in StreamFailures, throws \in BOOLEAN : WriterOpened(fail, throws)
  \/ \E chunk \in Chunks : ProducerWrite(chunk)
  \/ ProducerEnd
  \/ \E fail \in StreamFailures : WriteAnswered(fail)
  \/ WriterFinish
  \/ \E fail \in StreamFailures : WriterClosed(fail)
  \/ \E bufferSize \in BufferSizes : OpenAndReadableStream(bufferSize)
  \/ \E fail \in StreamFailures : ReaderOpened(fail)
  \/ \E fail \in StreamFailures, throws \in BOOLEAN : ReaderSized(fail, throws)
  \/ ConsumerPull
  \/ \E fail \in StreamFailures : ReadAnswered(fail)
  \/ ConsumerData
  \/ ReaderEnd
  \/ \E fail \in StreamFailures : ReaderClosed(fail)

SpecStream == Init /\ [][StreamNext]_vars


(***************************************************************************)
(* Claims about the streams, under SpecStream.                             *)
(***************************************************************************)
\* C7: the bytes piped into the stream of createAndWritableStream until
\* 'finish', in whatever chunks, are what the stream of openAndReadableStream
\* on the returned oid delivers until 'end', and the size reported with that
\* stream is their number.
C7_StreamRoundTrip ==
  (wr.finished /\ rd.endEmitted) =>
    /\ rd.size = Num(Len(produced))
    /\ delivered = produced

C7_Witness ==
  /\ wr.finished /\ rd.endEmitted
  /\ Len(produced) = 2 /\ rd.hwm = 1
  /\ delivered = produced /\ rd.size = Num(2)

\* C10: at most one read request of the ReadStream is unanswered at any time.
C10_OneReadOutstanding == Outstanding("read", "r") <= 1

C10_Witness ==
  /\ Outstanding("read", "r") = 1
  /\ delivered # <<>>
  /\ rd.reading

(***************************************************************************)
(* Reading the trace.                                                      *)
(***************************************************************************)
Reqs(k, side) ==
  {i \in DOMAIN trace : trace[i].e = "req" /\ trace[i].k = k /\ trace[i].side = side}

Anss(k, side) ==
  {i \in DOMAIN trace : trace[i].e = "ans" /\ trace[i].k = k /\ trace[i].side = side}

Sigs(e, side) == {i \in DOMAIN trace : trace[i].e = e /\ trace[i].side = side}

Before(S, i) == {j \in S : j < i}

\* the bytes of the events of trace picked by Keep, in order
BufsOf(Keep(_)) ==
  LET RECURSIVE bufs(_)
      bufs(q) == IF q = <<>> THEN <<>>
                 ELSE (IF Keep(Head(q)) THEN <<Head(q).buf>> ELSE <<>>) \o bufs(Tail(q))
  IN bufs(trace)

IsData(ev) == ev.e = "data" /\ ev.side = "r"
IsBytesRead(ev) ==
  ev.e = "ans" /\ ev.k = "read" /\ ev.side = "r" /\ ev.err = NoErr /\ ev.buf # <<>>
IsAccepted(ev) == ev.e = "write" /\ ev.side = "w"
IsWriteReq(ev) == ev.e = "req" /\ ev.k = "write" /\ ev.side = "w"

\* the reads that returned fewer bytes than asked for, the reads that failed
ShortReads ==
  {i \in Anss("read", "r") : trace[i].err = NoErr /\ Len(trace[i].buf) < trace[i].n}
FailedReads == {i \in Anss("read", "r") : trace[i].err # NoErr}
FailedWrites == {i \in Anss("write", "w") : trace[i].err # NoErr}
FailedCloses(side) == {i \in Anss("close", side) : trace[i].err # NoErr}

\* C11: once a read has returned fewer bytes than asked for the stream has
\* ended and no further read is sent, also when bytes were returned; the
\* chunks the consumer gets are the non-empty results of the reads, in order,
\* so the bytes of a short read are the last chunk and no chunk is empty.
C11_ShortReadEnds ==
  /\ \A i \in ShortReads :
       /\ rd.ended
       /\ \A j \in Reqs("read", "r") : j < i
  /\ BufsOf(IsData) \o rd.buffer = BufsOf(IsBytesRead)
  /\ \A j \in Sigs("data", "r") : trace[j].buf # <<>>

C11_Witness ==
  /\ rd.endEmitted
  /\ \E i \in ShortReads : trace[i].buf # <<>> /\ trace[i].buf = delivered
  /\ rd.hwm = 2

\* C12: when a read of the ReadStream fails the stream is errored, one
\* 'error' event carries the failure, and nothing else happens on the stream
\* afterwards: no data, no end, no further read.
C12_ReadFailureStops ==
  \A i \in FailedReads :
    /\ rd.errors = 1
    /\ Sigs("error", "r") = {i + 1}
    /\ trace[i + 1].err = trace[i].err
    /\ \A j \in DOMAIN trace : (j > i + 1) => trace[j].side # "r"
    /\ ~rd.ended /\ ~rd.endEmitted

C12_Witness ==
  /\ FailedReads # {}
  /\ delivered # <<>>
  /\ pending = <<>>
  /\ rd.errors = 1

\* C13: the WriteStream sends one write per accepted chunk, in the order the
\* chunks were written to it, each after the write before it has settled; at
\* most one write is unanswered, and after 'finish' the object is the
\* concatenation of the chunks.
C13_WritesInOrder ==
  LET sent == BufsOf(IsWriteReq)
      accepted == BufsOf(IsAccepted)
  IN /\ Outstanding("write", "w") <= 1
     /\ Len(sent) <= Len(accepted)
     /\ \A i \in DOMAIN sent : sent[i] = accepted[i]
     /\ \A i \in Reqs("write", "w") :
          Cardinality(Before(Anss("write", "w"), i)) =
            Cardinality(Before(Reqs("write", "w"), i))
     /\ wr.finished =>
          /\ Len(sent) = Len(accepted)
          /\ db.objs[wr.oid].data = Concat(accepted)

C13_Witness ==
  /\ wr.finished
  /\ \E i \in Anss("write", "w") : Cardinality(Before(Sigs("write", "w"), i)) = 2
  /\ db.objs[wr.oid].data = produced

\* C14: when a write of the WriteStream fails the stream is errored, one
\* 'error' event carries the failure, no write is sent afterwards (not for a
\* chunk that waited, not for a chunk written later, not again for the one
\* that failed) and 'finish' is not emitted.
C14_WriteFailureStops ==
  \A i \in FailedWrites :
    /\ wr.errors = 1
    /\ Sigs("error", "w") = {i + 1}
    /\ trace[i + 1].err = trace[i].err
    /\ \A j \in Reqs("write", "w") : j < i
    /\ ~wr.finished /\ Sigs("finish", "w") = {}

C14_Witness ==
  /\ FailedWrites # {}
  /\ wr.queue # <<>>
  /\ wr.ending
  /\ pending = <<>>

\* C15: openAndReadableStream opens in READ mode and returns the size of the
\* object with the stream; when the stream has ended, one close request is
\* sent on the handle it opened, right at 'end', with no read unanswered and
\* none sent afterwards.
C15_ReadableStreamCloses ==
  /\ \A i \in Reqs("open", "r") : trace[i].n = READ
  /\ (rd.pc = "open") => rd.size = Num(Len(db.objs[rd.oid].data))
  /\ Cardinality(Reqs("close", "r")) <= 1
  /\ rd.endEmitted => Cardinality(Reqs("close", "r")) = 1
  /\ \A i \in Reqs("close", "r") :
       /\ trace[i].fd = rd.fd
       /\ (i - 1) \in Sigs("end", "r")
       /\ Cardinality(Before(Reqs("read", "r"), i)) = Cardinality(Before(Anss("read", "r"), i))
       /\ \A j \in Reqs("read", "r") : j < i

C15_Witness ==
  /\ rd.close = "done"
  /\ Len(delivered) = 2
  /\ rd.size = Num(2)
  /\ ~IsOpen(db, rd.fd)

\* C16: createAndWritableStream creates an object, opens it in WRITE mode and
\* returns its identifier with the stream; one close request is sent on the
\* handle, right at 'finish', and 'finish' comes only after the producer has
\* ended the stream and every write has settled without an error.
C16_WritableStreamCloses ==
  /\ \A i \in Reqs("open", "w") :
       /\ trace[i].n = WRITE
       /\ (i - 1) \in Anss("create", "w")
  /\ (wr.pc = "open") => Exists(db, wr.oid)
  /\ Cardinality(Reqs("close", "w")) <= 1
  /\ wr.finished => Cardinality(Reqs("close", "w")) = 1
  /\ \A i \in Reqs("close", "w") :
       /\ trace[i].fd = wr.fd
       /\ (i - 1) \in Sigs("finish", "w")
  /\ \A i \in Sigs("finish", "w") :
       /\ Before(Sigs("endcall", "w"), i) # {}
       /\ Cardinality(Before(Reqs("write", "w"), i)) = Cardinality(Sigs("write", "w"))
       /\ Cardinality(Before(Anss("write", "w"), i)) = Cardinality(Sigs("write", "w"))
       /\ FailedWrites = {}

C16_Witness ==
  /\ wr.close = "done"
  /\ Len(produced) = 2
  /\ \E i \in Sigs("endcall", "w") : \E j \in Anss("write", "w") : i < j

\* C17: every handle a composite stream operation opened is closed in the
\* end: when the handle of openAndReadableStream is no longer used (the
\* stream ended or errored, or the operation failed after the open) and no
\* request is unanswered, a close has been sent for it.
C17_EventualClosure ==
  (/\ rd.has
   /\ rd.endEmitted \/ rd.errors > 0 \/ rd.pc = "rejected"
   /\ pending = <<>>) =>
    Reqs("close", "r") # {}

\* C18: a failed automatic close is written to console.error and that is
\* all: the stream emits no 'error', its 'end' or 'finish' stands, and the
\* close is not sent again.
C18_CloseFailureOnlyWarns ==
  \A side \in {"r", "w"} :
    \A i \in FailedCloses(side) :
      /\ (i + 1) \in Sigs("warn", side)
      /\ trace[i + 1].err = trace[i].err
      /\ Cardinality(Sigs("warn", side)) = 1
      /\ Sigs("error", side) = {}
      /\ Cardinality(Reqs("close", side)) = 1
      /\ IF side = "r" THEN rd.endEmitted /\ rd.errors = 0 /\ Cardinality(Sigs("end", "r")) = 1
         ELSE wr.finished /\ wr.errors = 0 /\ Cardinality(Sigs("finish", "w")) = 1

C18_Witness ==
  /\ FailedCloses("r") # {}
  /\ rd.close = "warned"
  /\ Len(produced) = 2 /\ delivered = produced
  /\ pending = <<>>


C23_CloseSentBeforeNotified ==
  \A side \in {"r", "w"} :
    \A i \in Sigs("notified", side) :
      /\ Before(Reqs("close", side), i) # {}
      /\ Before(Anss("close", side), i) = {}
      /\ \E j \in Sigs(IF side = "r" THEN "end" ELSE "finish", side) : j < i

C23_Witness ==
  /\ Sigs("notified", "w") # {}
  /\ Sigs("notified", "r") # {}
  /\ Sent("close", "r")
  /\ Anss("close", "r") = {}

\* C24: on the descriptor of a composite stream operation the requests are
\* ordered open, size (read side), reads or writes, close: a size, read or
\* write is sent only after the request before it in this order was answered
\* and never after the close request, and the close request is sent only when
\* every read or write sent has been answered.
C24_RequestsOrdered ==
  LET Work(side) == Reqs("read", side) \cup Reqs("write", side)
      Done(side) == Anss("read", side) \cup Anss("write", side)
  IN \A side \in {"r", "w"} :
       /\ \A i \in Reqs("size", side) \cup Work(side) :
            /\ Before(Reqs("close", side), i) = {}
            /\ \E j \in Anss("open", side) : j < i /\ trace[j].err = NoErr
       /\ \A i \in Reqs("read", side) :
            \E j \in Anss("size", side) : j < i /\ trace[j].err = NoErr
       /\ \A i \in Reqs("size", side) : Before(Work(side), i) = {}
       /\ \A i \in Reqs("close", side) :
            /\ Cardinality(Before(Work(side), i)) = Cardinality(Before(Done(side), i))
            /\ \E j \in Anss("open", side) : j < i /\ trace[j].err = NoErr
       /\ Cardinality(Reqs("open", side)) <= 1
       /\ Cardinality(Reqs("size", side)) <= 1
       /\ Reqs("size", "w") = {} /\ Reqs("read", "w") = {} /\ Reqs("write", "r") = {}

C24_Witness ==
  /\ Reqs("close", "w") # {} /\ Cardinality(Reqs("write", "w")) = 2
  /\ Reqs("close", "r") # {} /\ Cardinality(Reqs("read", "r")) = 2
  /\ Reqs("size", "r") # {}

\* C25: the stream of openAndReadableStream starts at offset 0 - the size
\* query made before the first read leaves the position there - and once 'end'
\* was emitted the bytes delivered are the whole object and their number is
\* the size returned with the stream, whatever the object and the chunk size.
C25_StreamCoversSize ==
  /\ (rd.pc = "open" /\ Reqs("read", "r") = {}) =>
       /\ IsOpen(db, rd.fd)
       /\ db.fds[rd.fd].pos = 0
  /\ rd.endEmitted =>
       /\ rd.size = Num(Len(delivered))
       /\ delivered = db.objs[rd.oid].data
  /\ rd.pc = "open" =>
       /\ rd.size = Num(Len(db.objs[rd.oid].data))
       /\ Len(delivered) <= rd.size.v

C25_Witness ==
  /\ rd.endEmitted
  /\ wr.errors > 0
  /\ rd.bufferSize = 1
  /\ Len(delivered) = 1

\* C26: the callback forms call the caller's callback exactly once per call,
\* when the composite operation has settled: with the error when it rejects,
\* with (undefined, value, stream) when it resolves - also when the callback
\* throws.
C26_CallbackOnce ==
  /\ Cardinality(Sigs("callback", "w")) =
       (IF wr.pc \in {"idle", "creating", "opening"} THEN 0 ELSE 1)
  /\ Cardinality(Sigs("callback", "r")) =
       (IF rd.pc \in {"idle", "opening", "sizing"} THEN 0 ELSE 1)
  /\ \A side \in {"r", "w"} :
       \A i \in Sigs("callback", side) :
         trace[i].err = (IF trace[i - 1].e = "ans" THEN trace[i - 1].err
                         ELSE IllegalArgument)
=============================================================================
